---- MODULE Spec2Model ----
(***************************************************************************)
(* Model of src/api_server.py: the four POST handlers (analyze_contract,   *)
(* translate_contract, assess_insurance, generate_recommendation), the     *)
(* primary provider call call_venice_api, the classification of its        *)
(* response, the JSON extraction of analyze_contract / assess_insurance    *)
(* and the fallback to portia.run_plan.                                    *)
(*                                                                         *)
(* Text is modelled as a sequence of tokens; each token stands for a fixed *)
(* character string and the text is their concatenation:                   *)
(*   "FENCE"      three backquote characters                               *)
(*   "json"       the letters json                                         *)
(*   "\n"         one newline                                              *)
(*   "{" "}" ":"  themselves                                               *)
(*   "1"          the digit 1                                              *)
(*   "\"a\""      the JSON string literal "a" (quote, a, quote)            *)
(*   "\"FENCE\""  the JSON string literal holding three backquotes         *)
(*   "\"\""       the empty JSON string literal                            *)
(*   "Sure"       a prose word                                             *)
(* No token other than "FENCE" and "\"FENCE\"" holds a backquote and none  *)
(* other than "json" holds one of its letters next to a fence, so every    *)
(* match of the source's patterns in the character string starts and ends  *)
(* at token boundaries, except the three backquotes inside "\"FENCE\"",    *)
(* which only str.replace('```', '') can hit (followed by a quote, they    *)
(* match neither '```json\n' nor '```\n'; preceded by a quote, never       *)
(* '\n```').                                                               *)
(***************************************************************************)
EXTENDS Integers, Sequences, FiniteSets, TLC

FENCE == "FENCE"
JSONTAG == "json"
NL == "\n"
LBRACE == "{"
RBRACE == "}"
COLON == ":"
DIGIT == "1"
STR_A == "\"a\""
STR_FENCE == "\"FENCE\""
STR_EMPTY == "\"\""
WORD == "Sure"

----------------------------------------------------------------------------
(* Sequence helpers.                                                       *)

SubSeqFrom(s, i) == SubSeq(s, i, Len(s))

HasAt(s, i, pat) ==
  /\ i >= 1
  /\ i + Len(pat) - 1 <= Len(s)
  /\ \A k \in 1..Len(pat) : s[i + k - 1] = pat[k]

Positions(s, pat) == { i \in 1..Len(s) : HasAt(s, i, pat) }

Min(S) == CHOOSE m \in S : \A n \in S : m <= n

Max(S) == CHOOSE m \in S : \A n \in S : m >= n

(* re.search(r'<opener>([\s\S]*?)\n```', content): the leftmost opener     *)
(* that is followed, after any text, by a newline and a fence; the lazy    *)
(* group ends at the first such closer.  The result is the span of         *)
(* group(0), or found = FALSE for None.                                    *)
NoMatch == [found |-> FALSE, from |-> 0, to |-> 0]

FencedSearch(content, opener) ==
  LET closer == <<NL, FENCE>>
      starts == { i \in Positions(content, opener) :
                    \E j \in Positions(content, closer) : j >= i + Len(opener) }
  IN IF starts = {} THEN NoMatch
     ELSE LET i == Min(starts)
              j == Min({ c \in Positions(content, closer) : c >= i + Len(opener) })
          IN [found |-> TRUE, from |-> i, to |-> j + Len(closer) - 1]

(* re.search(r'{[\s\S]*?}', content) as the source writes it: the          *)
(* quantifier is lazy, so the match runs from the first "{" that has a     *)
(* "}" after it to the FIRST "}" after it.                                 *)
BraceSearch(content) ==
  LET starts == { i \in 1..Len(content) :
                    /\ content[i] = LBRACE
                    /\ \E j \in (i+1)..Len(content) : content[j] = RBRACE }
  IN IF starts = {} THEN NoMatch
     ELSE LET i == Min(starts)
              j == Min({ c \in (i+1)..Len(content) : content[c] = RBRACE })
          IN [found |-> TRUE, from |-> i, to |-> j]

(* The `or` chain of the three searches (a Match object is truthy).        *)
JsonMatch(content) ==
  LET m1 == FencedSearch(content, <<FENCE, JSONTAG, NL>>)
      m2 == FencedSearch(content, <<FENCE, NL>>)
  IN IF m1.found THEN m1
     ELSE IF m2.found THEN m2
     ELSE BraceSearch(content)

(* str.replace(pat, ''): every non-overlapping occurrence, left to right.  *)
RECURSIVE ReplaceAll(_, _)
ReplaceAll(s, pat) ==
  IF s = <<>> THEN <<>>
  ELSE IF HasAt(s, 1, pat) THEN ReplaceAll(SubSeqFrom(s, Len(pat) + 1), pat)
  ELSE <<Head(s)>> \o ReplaceAll(Tail(s), pat)

(* str.replace('```', ''): a fence token disappears, and the three         *)
(* backquotes inside the string literal "\"FENCE\"" disappear too, which   *)
(* leaves the empty string literal.                                        *)
RECURSIVE StripFences(_)
StripFences(s) ==
  IF s = <<>> THEN <<>>
  ELSE IF Head(s) = FENCE THEN StripFences(Tail(s))
  ELSE IF Head(s) = STR_FENCE THEN <<STR_EMPTY>> \o StripFences(Tail(s))
  ELSE <<Head(s)>> \o StripFences(Tail(s))

(* json_match.group(0).replace('```json\n', '').replace('```\n', '')       *)
(*                    .replace('```', '')                                  *)
JsonStr(content, m) ==
  StripFences(
    ReplaceAll(
      ReplaceAll(SubSeq(content, m.from, m.to), <<FENCE, JSONTAG, NL>>),
      <<FENCE, NL>>))

----------------------------------------------------------------------------
(* json.loads over the token language.  A JSON text is whitespace, a       *)
(* value, whitespace; a value is a number (a run of digits), a string      *)
(* literal, or an object with no member or one member (the language has    *)
(* no comma).  ParseValue gives the position after the value starting at   *)
(* i, or 0 when there is none.                                             *)

StringLits == {STR_A, STR_FENCE, STR_EMPTY}

RECURSIVE SkipWs(_, _)
SkipWs(s, i) ==
  IF i <= Len(s) /\ s[i] = NL THEN SkipWs(s, i + 1) ELSE i

RECURSIVE NumEnd(_, _)
NumEnd(s, i) ==
  IF i <= Len(s) /\ s[i] = DIGIT THEN NumEnd(s, i + 1) ELSE i

RECURSIVE ParseValue(_, _)
ParseValue(s, i) ==
  IF i > Len(s) THEN 0
  ELSE IF s[i] = DIGIT THEN NumEnd(s, i)
  ELSE IF s[i] \in StringLits THEN i + 1
  ELSE IF s[i] = LBRACE THEN
    LET j == SkipWs(s, i + 1)
    IN IF j > Len(s) THEN 0
       ELSE IF s[j] = RBRACE THEN j + 1
       ELSE IF s[j] \in StringLits THEN
         LET k == SkipWs(s, j + 1)
         IN IF k > Len(s) \/ s[k] # COLON THEN 0
            ELSE LET v == ParseValue(s, SkipWs(s, k + 1))
                 IN IF v = 0 THEN 0
                    ELSE LET e == SkipWs(s, v)
                         IN IF e <= Len(s) /\ s[e] = RBRACE THEN e + 1 ELSE 0
       ELSE 0
  ELSE 0

ValidJson(s) ==
  LET v == ParseValue(s, SkipWs(s, 1))
  IN v # 0 /\ SkipWs(s, v) = Len(s) + 1

(* The value json.loads returns, written as the JSON text without its      *)
(* whitespace: two valid texts of the language denote the same value       *)
(* exactly when they agree up to whitespace.                               *)
JsonValue(s) == SelectSeq(s, LAMBDA t : t # NL)

(* json.loads(json_str): the value, or JSONDecodeError.                    *)
JsonLoads(s) ==
  IF ValidJson(s) THEN [ok |-> TRUE, val |-> JsonValue(s)]
  ELSE [ok |-> FALSE, val |-> <<>>]

----------------------------------------------------------------------------
(* Python values that the handlers inspect: the value response.json()      *)
(* returns and its parts.  k is the Python type; an object's v is the      *)
(* sequence of its <<key, value>> pairs; a str's v is its text.            *)

JNull == [k |-> "null"]
JNum(n) == [k |-> "num", v |-> n]
JStr(s) == [k |-> "str", v |-> s]
JList(s) == [k |-> "list", v |-> s]
JObj(pairs) == [k |-> "obj", v |-> pairs]

(* The outcome of evaluating an expression: a value, or an exception.      *)
Ok(x) == [ok |-> TRUE, val |-> x]
Raise(e) == [ok |-> FALSE, exc |-> e]

(* bool(x)                                                                 *)
Truthy(x) ==
  IF x.k = "null" THEN FALSE
  ELSE IF x.k = "num" THEN x.v # 0
  ELSE Len(x.v) > 0

(* key in x, for a str key                                                 *)
Contains(x, key) ==
  IF x.k \in {"null", "num"} THEN Raise("TypeError")
  ELSE IF x.k = "str" THEN Ok(\E i \in 1..Len(x.v) : x.v[i] = key)
  ELSE IF x.k = "list" THEN Ok(\E i \in 1..Len(x.v) : x.v[i] = JStr(<<key>>))
  ELSE Ok(\E i \in 1..Len(x.v) : x.v[i][1] = key)

(* x[key], for a str key                                                   *)
GetKey(x, key) ==
  IF x.k # "obj" THEN Raise("TypeError")
  ELSE IF \E i \in 1..Len(x.v) : x.v[i][1] = key
       THEN Ok(x.v[CHOOSE i \in 1..Len(x.v) : x.v[i][1] = key][2])
       ELSE Raise("KeyError")

(* x[0]                                                                    *)
GetFirst(x) ==
  IF x.k \in {"null", "num"} THEN Raise("TypeError")
  ELSE IF x.k = "obj" THEN Raise("KeyError")
  ELSE IF Len(x.v) = 0 THEN Raise("IndexError")
  ELSE IF x.k = "str" THEN Ok(JStr(<<x.v[1]>>))
  ELSE Ok(x.v[1])

(* len(x)                                                                  *)
PyLen(x) ==
  IF x.k \in {"null", "num"} THEN Raise("TypeError") ELSE Ok(Len(x.v))

(* venice_response and "choices" in venice_response                        *)
(*                 and len(venice_response["choices"]) > 0                 *)
ResponseIsValid(r) ==
  IF ~Truthy(r) THEN Ok(FALSE)
  ELSE LET c == Contains(r, "choices")
       IN IF ~c.ok THEN c
          ELSE IF ~c.val THEN Ok(FALSE)
          ELSE LET g == GetKey(r, "choices")
               IN IF ~g.ok THEN g
                  ELSE LET l == PyLen(g.val)
                       IN IF ~l.ok THEN l ELSE Ok(l.val > 0)

(* venice_response["choices"][0]["message"]["content"]                     *)
MessageContent(r) ==
  LET a == GetKey(r, "choices")
  IN IF ~a.ok THEN a
     ELSE LET b == GetFirst(a.val)
          IN IF ~b.ok THEN b
             ELSE LET c == GetKey(b.val, "message")
                  IN IF ~c.ok THEN c ELSE GetKey(c.val, "content")

----------------------------------------------------------------------------
(* The extraction step of analyze_contract and assess_insurance.           *)

(* {"raw_response": content}                                               *)
RawResponse(content) == [k |-> "raw_response", v |-> content]

(* A value json.loads returned.                                            *)
Parsed(v) == [k |-> "json", v |-> v]

(* The body of the extraction's try block: re.search raises TypeError on   *)
(* a content that is no str, json.loads raises JSONDecodeError.            *)
ExtractBody(content) ==
  IF content.k # "str" THEN Raise("TypeError")
  ELSE LET m == JsonMatch(content.v)
       IN IF m.found
          THEN LET r == JsonLoads(JsonStr(content.v, m))
               IN IF r.ok THEN Ok(Parsed(r.val)) ELSE Raise("JSONDecodeError")
          ELSE Ok(RawResponse(content))

(* Variant of Extract without the try: the exception leaves the step.     *)
ExtractBodyUncaught(content) == ExtractBody(content)

(* Variant of Extract whose fallback wraps the content with its newlines   *)
(* stripped.                                                               *)
ExtractTruncating(content) ==
  LET b == ExtractBody(content)
  IN IF b.ok /\ b.val.k = "json" THEN b
     ELSE IF content.k = "str"
          THEN Ok(RawResponse(JStr(SelectSeq(content.v, LAMBDA t : t # NL))))
          ELSE Ok(RawResponse(content))

(* try: ... except Exception: parsed_content = {"raw_response": content}   *)
Extract(content) ==
  LET b == ExtractBody(content)
  IN IF b.ok THEN b ELSE Ok(RawResponse(content))

----------------------------------------------------------------------------
(* The handlers.                                                           *)

Handlers ==
  {"analyze_contract", "translate_contract", "assess_insurance",
   "generate_recommendation"}

(* The handlers that run the extraction step on the message content.       *)
Extracting == {"analyze_contract", "assess_insurance"}

(* The handlers whose primary attempt sits in an inner try whose except    *)
(* only prints, so that control falls through to the fallback.             *)
InnerTry == {"translate_contract", "assess_insurance", "generate_recommendation"}

SummaryLimit == 500

(* Number of characters of a token and of a text.                          *)
TokenChars(t) ==
  IF t \in {NL, LBRACE, RBRACE, COLON, DIGIT} THEN 1
  ELSE IF t = STR_EMPTY THEN 2
  ELSE IF t \in {FENCE, STR_A} THEN 3
  ELSE IF t \in {JSONTAG, WORD} THEN 4
  ELSE 5

RECURSIVE CharLen(_)
CharLen(s) == IF s = <<>> THEN 0 ELSE TokenChars(Head(s)) + CharLen(Tail(s))

(* content[:500] + "..." if len(content) > 500 else content.  len raises   *)
(* TypeError on a content that is None or a number.  A text longer than    *)
(* the limit is cut; the cut text is kept abstract, as the marked prefix.  *)
Summary(content) ==
  LET l == PyLen(content)
  IN IF ~l.ok THEN l
     ELSE IF content.k = "str" /\ CharLen(content.v) > SummaryLimit
          THEN Ok([k |-> "cut", v |-> content])
          ELSE Ok(content)

(* plan.model_dump() and plan_run.model_dump()                             *)
ModelDump(x) == [dump |-> x]

(* Variant of PrimaryEnvelope that does not carry the plan built before.   *)
PrimaryEnvelopeNoPlan(plan, value, summary) ==
  [plan |-> ModelDump("none"),
   results |-> [outputs |-> [final_output |-> [value |-> value, summary |-> summary]]],
   venice_used |-> TRUE]

(* The envelope of the primary path.                                       *)
PrimaryEnvelope(plan, value, summary) ==
  [plan |-> ModelDump(plan),
   results |-> [outputs |-> [final_output |-> [value |-> value, summary |-> summary]]],
   venice_used |-> TRUE]

(* The envelope of the fallback path.                                      *)
FallbackEnvelope(plan, plan_run) ==
  [plan |-> ModelDump(plan), results |-> ModelDump(plan_run), venice_used |-> FALSE]

(* return {"error": str(e)}; the message is kept as the exception's name.  *)
ErrorEnvelope(e) == [error |-> e]

(* Variant of FinalValue that runs the extraction in every handler.        *)
FinalValueAlwaysExtract(h, content) == Extract(content)

(* The value a handler puts in final_output.value: analyze_contract and    *)
(* assess_insurance run the extraction, translate_contract and             *)
(* generate_recommendation place the content itself.                       *)
FinalValue(h, content) ==
  IF h \in Extracting THEN Extract(content) ELSE Ok(content)

(* The primary attempt, from the test of venice_response to the return of  *)
(* the primary envelope.  kind is "return" (the envelope is returned),     *)
(* "unusable" (the test is false) or "raise" (an exception leaves the      *)
(* attempt).                                                               *)
Returned(env) == [kind |-> "return", envelope |-> env, exc |-> "none"]
Unusable == [kind |-> "unusable", envelope |-> ErrorEnvelope("none"), exc |-> "none"]
Raised(e) == [kind |-> "raise", envelope |-> ErrorEnvelope(e), exc |-> e]

PrimaryAttempt(h, plan, r) ==
  LET valid == ResponseIsValid(r)
  IN IF ~valid.ok THEN Raised(valid.exc)
     ELSE IF ~valid.val THEN Unusable
     ELSE LET c == MessageContent(r)
          IN IF ~c.ok THEN Raised(c.exc)
             ELSE LET value == FinalValue(h, c.val)
                      summary == Summary(c.val)
                  IN IF ~value.ok THEN Raised(value.exc)
                     ELSE IF ~summary.ok THEN Raised(summary.exc)
                     ELSE Returned(PrimaryEnvelope(plan, value.val, summary.val))

(* Variant of PrimaryRaiseGoes with an inner try in every handler.         *)
PrimaryRaiseGoesAlwaysFallback(h) == "fallback"

(* Where an exception of the primary attempt goes: analyze_contract has no *)
(* inner try, so it reaches the outer except; in the other handlers the    *)
(* inner except swallows it and the fallback follows.                      *)
PrimaryRaiseGoes(h) == IF h \in InnerTry THEN "fallback" ELSE "outer"

(* Variant of AfterReturn that goes on to the fallback.                    *)
AfterReturnRunsPlan == "run_plan"

(* Where control goes after the primary path's return statement.           *)
AfterReturn == "done"

----------------------------------------------------------------------------
(* Inputs.                                                                 *)

MaxLen == 3
MaxBrace == 5
MaxBody == 2

SeqsUpTo(A, n) == UNION { [1..m -> A] : m \in 0..n }

Alphabet ==
  {FENCE, JSONTAG, NL, LBRACE, RBRACE, COLON, DIGIT, STR_A, STR_FENCE, WORD}

BraceAlphabet == {LBRACE, RBRACE, COLON, STR_A}

BodyAlphabet == {DIGIT, STR_FENCE, LBRACE, RBRACE, WORD, NL}

(* Message contents: every text of at most MaxLen tokens, every text that  *)
(* opens a brace and goes on with at most MaxBrace braces, colons and      *)
(* string literals, and fenced blocks (tagged json or untagged) around a   *)
(* body of at most MaxBody tokens, with or without prose before and after. *)
BraceTexts == { <<LBRACE>> \o t : t \in SeqsUpTo(BraceAlphabet, MaxBrace) }

FencedTexts ==
  { pre \o open \o body \o <<NL, FENCE>> \o post :
      pre \in {<<>>, <<WORD, NL>>},
      open \in {<<FENCE, JSONTAG, NL>>, <<FENCE, NL>>},
      body \in SeqsUpTo(BodyAlphabet, MaxBody),
      post \in {<<>>, <<NL, WORD>>} }

Contents ==
  SeqsUpTo(Alphabet, MaxLen) \cup BraceTexts \cup FencedTexts

(* A response of the shape the provider documents, carrying content.       *)
WellFormed(content) ==
  JObj(<< <<"choices",
            JList(<< JObj(<< <<"message",
                               JObj(<< <<"content", content>> >>)>> >>) >>)>> >>)

Choices(x) == JObj(<< <<"choices", x>> >>)

Entry(x) == Choices(JList(<<x>>))

(* Bodies response.json() can return that are not of that shape.           *)
MalformedBodies ==
  << JNull, JNum(0), JNum(5),
     JStr(<<"oops">>), JStr(<<"choices">>),
     JList(<<>>), JList(<<JStr(<<"choices">>)>>), JList(<<JNum(1)>>),
     JObj(<<>>), JObj(<< <<"error", JStr(<<"unauthorized">>)>> >>),
     Choices(JNull), Choices(JNum(5)), Choices(JList(<<>>)),
     Choices(JStr(<<"x">>)), Choices(JObj(<< <<"a", JNum(1)>> >>)),
     Entry(JNum(5)), Entry(JObj(<<>>)),
     Entry(JObj(<< <<"message", JNull>> >>)),
     Entry(JObj(<< <<"message", JObj(<<>>)>> >>)),
     WellFormed(JNull), WellFormed(JNum(5)) >>

(* call_venice_api: requests.post or response.json() raising gives None,   *)
(* otherwise the decoded body is returned whatever the status.             *)
call_venice_api(t) == IF t.k = "json" THEN t.v ELSE JNull

Plans == {"plan_1", "plan_2"}

(* portia.run_plan(plan) when it succeeds.                                 *)
PlanRun(plan) == [run_of |-> plan]

(* request.analysis.get('vulnerabilities', {}).get('risk_level', 'Medium') *)
(* raises AttributeError when the entry is no dict.                        *)
ReadAnalysis(req) ==
  IF req.handler = "generate_recommendation" /\ req.vulnerabilities = "str"
  THEN Raise("AttributeError")
  ELSE Ok(TRUE)

Requests ==
  { [handler |-> h, vulnerabilities |-> "dict"] : h \in Handlers }
  \cup { [handler |-> "generate_recommendation", vulnerabilities |-> "str"] }

----------------------------------------------------------------------------
(* One request.  calls is the sequence of external calls made so far and   *)
(* raised the sequence of exceptions raised so far, each with the place    *)
(* that raised it.                                                         *)

VARIABLES request, pc, plan, venice_response, envelope, calls, raised

vars == <<request, pc, plan, venice_response, envelope, calls, raised>>

NoEnvelope == [pending |-> TRUE]

Init ==
  /\ request \in Requests
  /\ pc = "plan"
  /\ plan = "none"
  /\ venice_response = JNull
  /\ envelope = NoEnvelope
  /\ calls = <<>>
  /\ raised = <<>>

Fail(site, e) ==
  /\ envelope' = ErrorEnvelope(e)
  /\ raised' = Append(raised, <<site, e>>)
  /\ pc' = "done"

(* From the entry of the try block to the return of portia.plan.           *)
PlanStep ==
  /\ pc = "plan"
  /\ LET a == ReadAnalysis(request)
     IN IF ~a.ok
        THEN Fail("request", a.exc) /\ UNCHANGED <<plan, calls>>
        ELSE /\ calls' = Append(calls, "plan")
             /\ \/ \E p \in Plans :
                     /\ plan' = p
                     /\ pc' = "venice"
                     /\ UNCHANGED <<envelope, raised>>
                \/ Fail("plan", "PlanError") /\ UNCHANGED plan
  /\ UNCHANGED <<request, venice_response>>

(* venice_response = call_venice_api(...)                                  *)
VeniceStep ==
  /\ pc = "venice"
  /\ \/ \E k \in {"post_raises", "json_raises"} :
          venice_response' = call_venice_api([k |-> k])
     \/ \E i \in 1..Len(MalformedBodies) :
          venice_response' = call_venice_api([k |-> "json", v |-> MalformedBodies[i]])
     \/ \E c \in Contents :
          venice_response' = call_venice_api([k |-> "json", v |-> WellFormed(JStr(c))])
  /\ calls' = Append(calls, "venice")
  /\ pc' = "primary"
  /\ UNCHANGED <<request, plan, envelope, raised>>

(* The exception the extraction's own try caught, if the attempt got to    *)
(* the extraction.                                                         *)
ExtractionRaises(h, r) ==
  LET valid == ResponseIsValid(r)
      c == MessageContent(r)
  IN IF h \in Extracting /\ valid.ok /\ valid.val /\ c.ok /\ ~ExtractBody(c.val).ok
     THEN << <<"extraction", ExtractBody(c.val).exc>> >>
     ELSE <<>>

(* The test of venice_response and the primary path.                       *)
PrimaryStep ==
  /\ pc = "primary"
  /\ LET h == request.handler
         a == PrimaryAttempt(h, plan, venice_response)
         caught == ExtractionRaises(h, venice_response)
     IN \/ /\ a.kind = "return"
           /\ envelope' = a.envelope
           /\ raised' = raised \o caught
           /\ pc' = AfterReturn
        \/ /\ a.kind = "unusable"
           /\ pc' = "run_plan"
           /\ UNCHANGED <<envelope, raised>>
        \/ /\ a.kind = "raise"
           /\ raised' = raised \o caught \o << <<"primary", a.exc>> >>
           /\ IF PrimaryRaiseGoes(h) = "fallback"
              THEN pc' = "run_plan" /\ UNCHANGED envelope
              ELSE pc' = "done" /\ envelope' = a.envelope
  /\ UNCHANGED <<request, plan, venice_response, calls>>

(* plan_run = portia.run_plan(plan) and the fallback envelope.             *)
RunPlanStep ==
  /\ pc = "run_plan"
  /\ calls' = Append(calls, "run_plan")
  /\ \/ /\ envelope' = FallbackEnvelope(plan, PlanRun(plan))
        /\ pc' = "done"
        /\ UNCHANGED raised
     \/ Fail("run_plan", "RunError")
  /\ UNCHANGED <<request, plan, venice_response>>

Next == PlanStep \/ VeniceStep \/ PrimaryStep \/ RunPlanStep

Spec == Init /\ [][Next]_vars

----------------------------------------------------------------------------
(* Vocabulary of the properties.                                           *)

Done == pc = "done"

Called(c) == \E i \in 1..Len(calls) : calls[i] = c

TimesCalled(c) == Cardinality({ i \in 1..Len(calls) : calls[i] = c })

RaisedAt(site) == \E i \in 1..Len(raised) : raised[i][1] = site

IsError(env) == DOMAIN env = {"error"}

IsProviderEnvelope(env) == DOMAIN env = {"plan", "results", "venice_used"}

IsPrimary(env) == IsProviderEnvelope(env) /\ env.venice_used

IsSecondary(env) == IsProviderEnvelope(env) /\ ~env.venice_used

FinalOutputValue(env) == env.results.outputs.final_output.value

(* A response with a non-empty choices list whose first entry carries a    *)
(* message with text content.                                              *)
Usable(r) ==
  /\ ResponseIsValid(r) = Ok(TRUE)
  /\ MessageContent(r).ok
  /\ MessageContent(r).val.k = "str"

(* The text content of a usable response.                                  *)
ContentOf(r) == MessageContent(r).val.v

Has(c, t) == \E i \in 1..Len(c) : c[i] = t

NoBraces(c) == ~Has(c, LBRACE) /\ ~Has(c, RBRACE)

Count(c, t) == Cardinality({ i \in 1..Len(c) : c[i] = t })

(* Several braces: at least two "{" and two "}", as nested or sibling      *)
(* objects have.                                                           *)
SeveralBraces(c) == Count(c, LBRACE) >= 2 /\ Count(c, RBRACE) >= 2

(* A fenced block: an opening fence line, tagged json or untagged, and     *)
(* later a newline followed by a fence.                                    *)
HasFencedBlock(c) ==
  \E i, j \in 1..Len(c) :
    /\ HasAt(c, j, <<NL, FENCE>>)
    /\ \/ HasAt(c, i, <<FENCE, JSONTAG, NL>>) /\ j >= i + 3
       \/ HasAt(c, i, <<FENCE, NL>>) /\ j >= i + 2

(* The inner text of the first fenced block tagged json.                   *)
HasJsonBlock(c) == \E i, j \in 1..Len(c) :
  HasAt(c, i, <<FENCE, JSONTAG, NL>>) /\ HasAt(c, j, <<NL, FENCE>>) /\ j >= i + 3

JsonBlockInner(c) ==
  LET i == Min({ a \in 1..Len(c) : HasAt(c, a, <<FENCE, JSONTAG, NL>>)
                   /\ \E b \in 1..Len(c) : HasAt(c, b, <<NL, FENCE>>) /\ b >= a + 3 })
      j == Min({ b \in 1..Len(c) : HasAt(c, b, <<NL, FENCE>>) /\ b >= i + 3 })
  IN SubSeq(c, i + 3, j - 1)

(* The span from the first "{" to the last "}".                            *)
HasBraceSpan(c) ==
  \E i, j \in 1..Len(c) : i < j /\ c[i] = LBRACE /\ c[j] = RBRACE

FullBraceSpan(c) ==
  SubSeq(c, Min({ i \in 1..Len(c) : c[i] = LBRACE }),
            Max({ j \in 1..Len(c) : c[j] = RBRACE }))

(* Request in which the primary answered in a handler that extracts.       *)
ExtractedDone ==
  /\ Done
  /\ request.handler \in Extracting
  /\ Usable(venice_response)

----------------------------------------------------------------------------
(* C1: in each handler, when the primary call throws, fails at transport   *)
(* level or returns no usable response, and portia.plan and                *)
(* portia.run_plan both succeed, the envelope is the secondary one: the    *)
(* plan built before the primary call, the run result, venice_used False.  *)
C1_SecondaryEnvelopeOnPrimaryFailure ==
  (/\ Done
   /\ Called("venice")
   /\ ~Usable(venice_response)
   /\ ~RaisedAt("run_plan"))
  => envelope = FallbackEnvelope(plan, PlanRun(plan))

(* C2: every primary outcome that is not a usable response leads to the    *)
(* secondary path (run_plan is called) in all four handlers, and none      *)
(* gives an error envelope while the planning SDK works.                   *)
C2_UnusableAlwaysFallsBack ==
  (Done /\ Called("venice") /\ ~Usable(venice_response))
  => /\ Called("run_plan")
     /\ IsError(envelope) => RaisedAt("run_plan")

(* C3: with no fenced block and several braces, the only candidate is the  *)
(* span from the first "{" to the last "}": its parse when it is valid     *)
(* JSON, the raw-response fallback when it is not.                         *)
C3_GreedySpanIsTheCandidate ==
  (/\ ExtractedDone
   /\ ~HasFencedBlock(ContentOf(venice_response))
   /\ HasBraceSpan(ContentOf(venice_response))
   /\ SeveralBraces(ContentOf(venice_response)))
  => LET c == ContentOf(venice_response)
         span == FullBraceSpan(c)
     IN /\ IsPrimary(envelope)
        /\ FinalOutputValue(envelope) =
             IF ValidJson(span) THEN Parsed(JsonValue(span))
             ELSE RawResponse(JStr(c))

(* C4: when the content holds a fenced block tagged json whose inner text  *)
(* is valid JSON, the value is exactly the parse of that inner text and    *)
(* the envelope is the primary one.                                        *)
C4_FencedJsonIsParsedUnaltered ==
  (/\ ExtractedDone
   /\ HasJsonBlock(ContentOf(venice_response))
   /\ ValidJson(JsonBlockInner(ContentOf(venice_response))))
  => /\ IsPrimary(envelope)
     /\ FinalOutputValue(envelope) =
          Parsed(JsonValue(JsonBlockInner(ContentOf(venice_response))))

(* C5 as stated: a content with no "{" and no "}" gives the raw-response   *)
(* wrapper around the unchanged content.                                   *)
C5_NoBracesGivesRaw ==
  (ExtractedDone /\ NoBraces(ContentOf(venice_response)))
  => /\ IsPrimary(envelope)
     /\ FinalOutputValue(envelope) = RawResponse(JStr(ContentOf(venice_response)))

(* C5 amended: a content with no "{", no "}" and no fenced block gives     *)
(* the raw-response wrapper around the unchanged content.                  *)
C5_NoBracesNoFenceGivesRaw ==
  (/\ ExtractedDone
   /\ NoBraces(ContentOf(venice_response))
   /\ ~HasFencedBlock(ContentOf(venice_response)))
  => /\ IsPrimary(envelope)
     /\ FinalOutputValue(envelope) = RawResponse(JStr(ContentOf(venice_response)))

C5_Witness ==
  /\ ExtractedDone
  /\ NoBraces(ContentOf(venice_response))
  /\ ~HasFencedBlock(ContentOf(venice_response))
  /\ Has(ContentOf(venice_response), FENCE)
  /\ Has(ContentOf(venice_response), NL)
  /\ FinalOutputValue(envelope) = RawResponse(JStr(ContentOf(venice_response)))

(* Plain prose: no brace and no fenced block.                              *)
PlainProse(c) == NoBraces(c) /\ ~HasFencedBlock(c) /\ c # <<>>

C7_PlanExactlyOnceThenOrdered ==
  Done => /\ TimesCalled("plan") = 1
          /\ calls[1] = "plan"
          /\ TimesCalled("venice") <= 1
          /\ TimesCalled("run_plan") <= 1
          /\ Called("run_plan") => Called("venice") /\ ~Usable(venice_response)

(* The calls made so far are an initial part of plan, primary, run_plan.   *)
CallsInOrder ==
  /\ Len(calls) <= 3
  /\ \A i \in 1..Len(calls) : calls[i] = <<"plan", "venice", "run_plan">>[i]

(* C7 amended: the external calls are an initial part of the sequence      *)
(* plan, primary, run_plan, none repeated; the primary is called only      *)
(* after portia.plan returned a plan; run_plan only after the primary      *)
(* attempt failed, never when the response was usable; and portia.plan is  *)
(* called exactly once, except that generate_recommendation makes no call  *)
(* at all when reading request.analysis raises before the plan call.       *)
C7_CallsOrderedNoRetry ==
  /\ CallsInOrder
  /\ Called("venice") => plan \in Plans
  /\ Called("run_plan") => pc \in {"done"} /\ ~Usable(venice_response)
  /\ pc = "run_plan" => ~Usable(venice_response)
  /\ (Done /\ Usable(venice_response)) => calls = <<"plan", "venice">>
  /\ (Done /\ calls = <<>>) =>
       /\ request.handler = "generate_recommendation"
       /\ raised = << <<"request", "AttributeError">> >>

C7_Witness ==
  /\ Done
  /\ calls = <<"plan", "venice", "run_plan">>
  /\ IsSecondary(envelope)

(* C8 as stated: any exception raised by portia.plan, by the primary       *)
(* handling, by portia.run_plan or by the envelope assembly ends in the    *)
(* envelope {"error": message} and nothing else.                           *)
C8_EveryExceptionGivesError ==
  \A i \in 1..Len(raised) :
    (Done /\ raised[i][1] \in {"plan", "primary", "run_plan"})
    => envelope = ErrorEnvelope(raised[i][2])

(* The exceptions that reach the handler's outer except.                   *)
ReachesOuter(h, site) ==
  \/ site \in {"request", "plan", "run_plan"}
  \/ site = "primary" /\ h = "analyze_contract"

(* C8 amended: an exception raised by portia.plan, by portia.run_plan, by  *)
(* reading the request, or, in analyze_contract only, by the primary       *)
(* handling outside the extraction's own try, is caught by the outer       *)
(* except and the handler returns exactly {"error": message}; in the       *)
(* other three handlers an exception of the primary handling is caught by  *)
(* the inner try and the fallback follows, and an exception of the         *)
(* extraction is caught by the extraction's try; the handler always        *)
(* returns an envelope and returns an error one in no other case.          *)
C8_OuterExceptGivesError ==
  /\ Done <=> envelope # NoEnvelope
  /\ Done =>
       LET outer == { i \in 1..Len(raised) : ReachesOuter(request.handler, raised[i][1]) }
       IN IF outer # {}
          THEN /\ outer = {Len(raised)}
               /\ envelope = ErrorEnvelope(raised[Len(raised)][2])
          ELSE IsProviderEnvelope(envelope)

C8_Witness ==
  /\ Done
  /\ request.handler = "analyze_contract"
  /\ raised = << <<"primary", "KeyError">> >>
  /\ envelope = ErrorEnvelope("KeyError")

(* C9: the plan call comes before any provider is contacted, and every     *)
(* envelope in which a provider produced the answer holds, as plan, the    *)
(* artifact of that single plan call, on both paths.                       *)
C9_PlanFirstAndInEnvelope ==
  /\ calls # <<>> => calls[1] = "plan"
  /\ (Done /\ ("venice_used" \in DOMAIN envelope)) =>
       /\ TimesCalled("plan") = 1
       /\ plan \in Plans
       /\ "plan" \in DOMAIN envelope
       /\ envelope.plan = ModelDump(plan)

C9_Witness ==
  /\ Done
  /\ IsPrimary(envelope)
  /\ plan = "plan_2"
  /\ envelope.plan = ModelDump("plan_2")

(* C10: in analyze_contract and assess_insurance, whatever text the        *)
(* usable response carries, the handler returns the primary envelope       *)
(* whose value is a parsed JSON value or the raw-response wrapper around   *)
(* the original content; no error envelope, no switch to the secondary.    *)
C10_ExtractionNeverEscapes ==
  ExtractedDone
  => /\ IsPrimary(envelope)
     /\ ~Called("run_plan")
     /\ \/ /\ FinalOutputValue(envelope).k = "json"
           /\ ValidJson(FinalOutputValue(envelope).v)
        \/ FinalOutputValue(envelope) = RawResponse(JStr(ContentOf(venice_response)))

C10_Witness ==
  /\ ExtractedDone
  /\ HasJsonBlock(ContentOf(venice_response))
  /\ ~ValidJson(JsonBlockInner(ContentOf(venice_response)))
  /\ raised = << <<"extraction", "JSONDecodeError">> >>
  /\ FinalOutputValue(envelope) = RawResponse(JStr(ContentOf(venice_response)))

====
